---- MODULE Spec2Model ----
(***************************************************************************)
(* cargo-export: file-name normalisation (split_file_name,                 *)
(* target_file_name) and the export run of main().                         *)
(*                                                                         *)
(* A Rust &str / String is modelled as the sequence of its UTF-8 bytes     *)
(* (integers 0..255).  Byte indices of the source are 0-based, sequence    *)
(* positions are 1-based: byte index i is position i + 1.                  *)
(***************************************************************************)
EXTENDS Integers, Sequences, FiniteSets, TLC

VARIABLES
    pc,        \* position of the modelled run
    input,     \* names: the file name under construction / under test
    npieces,   \* names: number of pieces `input` was built from
    tag,       \* names, run: Option<&str> tag_name
    sp,        \* names: result of split_file_name(input)
    out,       \* names: result of target_file_name(input, tag)
    out2,      \* names: result of target_file_name(out, None)
    spx,       \* names: result of split_file_name(input + ".exe")
    argv,            \* args: std::env::args()
    subcommand_name, \* args: second element of argv, "" when absent
    self_args,       \* args: arguments before the first "--"
    cargo_args,      \* args: arguments after the first "--", then with the defaults
    matches,         \* args: result of opts.parse(self_args)
    target,          \* args, run: Option, first free argument (PATH)
    stdout_read,     \* run: lines of cargo's stdout read so far
    artifacts,       \* run: Vec<CompilerArtifact> still to be copied from
    status,          \* run: "running", or the result of command.wait()
    copies,          \* run: the fs::copy calls that returned Ok, in order
    target_dir,      \* run: the files of the destination directory the run has
                     \*      written: name, the artifact whose bytes it was given,
                     \*      whether it holds all of them
    p_name,          \* proptest: generated name
    p_ext,           \* proptest: generated Option<String> extension
    p_hash           \* proptest: generated Option<u64> hash

names_vars == <<input, npieces, sp, out, out2, spx>>
args_vars == <<argv, subcommand_name, self_args, cargo_args, matches, target>>
run_vars == <<stdout_read, artifacts, status, copies, target_dir>>
prop_vars == <<p_name, p_ext, p_hash>>
vars == <<pc, tag, names_vars, args_vars, run_vars, prop_vars>>

----------------------------------------------------------------------------
(* Bounds *)

MaxPieces == 4
MaxSelfArgs == 3
MaxCargoArgs == 2
MaxLines == 3

----------------------------------------------------------------------------
(* Option<T> *)

None == [some |-> FALSE, val |-> <<>>]
Some(v) == [some |-> TRUE, val |-> v]

----------------------------------------------------------------------------
(* Byte strings *)

HYPHEN == <<45>>
DOT == <<46>>
EXE_EXTENSION == <<46, 101, 120, 101>>
RUSTC_HASH_LENGTH == 16

\* "ebb8dd5b587f73a1"
HashLower == <<101, 98, 98, 56, 100, 100, 53, 98, 53, 56, 55, 102, 55, 51, 97, 49>>
\* "00000000000000AF"
HashUpper == <<48, 48, 48, 48, 48, 48, 48, 48, 48, 48, 48, 48, 48, 48, 65, 70>>
\* "ebb8dd5b587f73g1": 16 ASCII bytes, one of them not a hex digit
NotHex16 == <<101, 98, 98, 56, 100, 100, 53, 98, 53, 56, 55, 102, 55, 51, 103, 49>>
\* "ebb8dd5b587f73" followed by U+00E9 (2 bytes): 16 bytes, 15 characters
MultiByte16 == <<101, 98, 98, 56, 100, 100, 53, 98, 53, 56, 55, 102, 55, 51, 195, 169>>

Pieces ==
    { <<97>>,                   \* "a"
      HYPHEN,                   \* "-"
      <<195, 169>>,             \* U+00E9, a two-byte character
      EXE_EXTENSION,            \* ".exe"
      <<46, 69, 88, 69>>,       \* ".EXE"
      HYPHEN \o HashLower,
      HYPHEN \o HashUpper,
      HYPHEN \o NotHex16,
      HYPHEN \o MultiByte16 }

Tags == { None, Some(<<>>), Some(<<116, 97, 103>>) }   \* None, "", "tag"

\* str::is_char_boundary
IsCharBoundary(s, i) ==
    IF i = 0 \/ i = Len(s) THEN TRUE
    ELSE IF i < 0 \/ i > Len(s) THEN FALSE
    ELSE ~(s[i + 1] \in 128..191)

\* &s[from..to] is defined (does not panic)
SliceOk(s, from, to) ==
    from <= to /\ IsCharBoundary(s, from) /\ IsCharBoundary(s, to)

\* &s[from..to], bytes from..to-1
Slice(s, from, to) == SubSeq(s, from + 1, to)

\* str::ends_with(suffix)
EndsWith(s, suffix) ==
    /\ Len(s) >= Len(suffix)
    /\ SubSeq(s, Len(s) - Len(suffix) + 1, Len(s)) = suffix

\* mutant: the suffix is compared ignoring ASCII case
UpperByte(b) == IF b \in 97..122 THEN b - 32 ELSE b
StripSuffixIgnoreCaseMut(s, suffix) ==
    IF /\ Len(s) >= Len(suffix)
       /\ \A k \in 1..Len(suffix) :
             UpperByte(s[Len(s) - Len(suffix) + k]) = UpperByte(suffix[k])
    THEN Some(Slice(s, 0, Len(s) - Len(suffix)))
    ELSE None

\* str::strip_suffix(suffix): Option<&str>
StripSuffix(s, suffix) ==
    IF EndsWith(s, suffix) THEN Some(Slice(s, 0, Len(s) - Len(suffix))) ELSE None

\* mutant: the first '-' instead of the last
RFindFirstMut(s) ==
    LET hits == { i \in 0..(Len(s) - 1) : s[i + 1] = HYPHEN[1] }
    IN  IF hits = {} THEN None
        ELSE Some(CHOOSE i \in hits : \A j \in hits : i <= j)

\* mutant: the character index of the last '-' instead of its byte index
RFindCharIndexMut(s) ==
    LET hits == { i \in 0..(Len(s) - 1) : s[i + 1] = HYPHEN[1] }
        last == CHOOSE i \in hits : \A j \in hits : j <= i
    IN  IF hits = {} THEN None
        ELSE Some(Cardinality({ j \in 0..(last - 1) : ~(s[j + 1] \in 128..191) }))

\* str::rfind('-'): byte index of the last '-', as Option<usize>
RFind(s) ==
    LET hits == { i \in 0..(Len(s) - 1) : s[i + 1] = HYPHEN[1] }
    IN  IF hits = {} THEN None
        ELSE Some(CHOOSE i \in hits : \A j \in hits : j <= i)

\* mutant: any ASCII letter or digit
IsAsciiHexdigitAlnumMut(b) == b \in 48..57 \/ b \in 65..90 \/ b \in 97..122

\* char::is_ascii_hexdigit on a one-byte character
IsAsciiHexdigit(b) == b \in 48..57 \/ b \in 65..70 \/ b \in 97..102

\* mutant: only the byte length is checked
AllHexdigitLenOnlyMut(s) == TRUE

\* hash.chars().all(|c| c.is_ascii_hexdigit()): a character of two or more
\* bytes starts with a byte >= 194, which is no hex digit
AllHexdigit(s) == \A k \in 1..Len(s) : IsAsciiHexdigit(s[k])

----------------------------------------------------------------------------
(* split_file_name, target_file_name *)

Panic == [panic |-> TRUE, stem |-> <<>>, hash |-> None, ext |-> None]
Split(stem, hash, ext) == [panic |-> FALSE, stem |-> stem, hash |-> hash, ext |-> ext]

split_file_name(s) ==
    LET stripped  == StripSuffix(s, EXE_EXTENSION)
        file_name == IF stripped.some THEN stripped.val ELSE s
        extension == IF stripped.some
                     THEN Some(Slice(EXE_EXTENSION, 1, Len(EXE_EXTENSION)))
                     ELSE None
        found     == RFind(file_name)
    IN  IF ~(found.some /\ found.val > 0)
        THEN Split(file_name, None, extension)
        ELSE LET idx == found.val
             IN  IF ~SliceOk(file_name, idx + 1, Len(file_name)) THEN Panic
                 ELSE LET hash == Slice(file_name, idx + 1, Len(file_name))
                      IN  IF Len(hash) = RUSTC_HASH_LENGTH /\ AllHexdigit(hash)
                          THEN IF ~SliceOk(file_name, 0, idx) THEN Panic
                               ELSE Split(Slice(file_name, 0, idx), Some(hash), extension)
                          ELSE Split(file_name, None, extension)

NoMatches == [ok |-> FALSE, n |-> FALSE, h |-> FALSE, t |-> None, free |-> <<>>]

Failed == [panic |-> TRUE, val |-> <<>>]
Returned(v) == [panic |-> FALSE, val |-> v]

\* mutant: the tag is appended after the extension
target_file_name_TagLastMut(file_name, tag_name) ==
    LET s == split_file_name(file_name)
    IN  IF s.panic THEN Failed
        ELSE Returned(s.stem
                      \o (IF s.ext.some THEN DOT \o s.ext.val ELSE <<>>)
                      \o (IF tag_name.some THEN HYPHEN \o tag_name.val ELSE <<>>))

target_file_name(file_name, tag_name) ==
    LET s == split_file_name(file_name)
    IN  IF s.panic THEN Failed
        ELSE Returned(s.stem
                      \o (IF tag_name.some THEN HYPHEN \o tag_name.val ELSE <<>>)
                      \o (IF s.ext.some THEN DOT \o s.ext.val ELSE <<>>))

----------------------------------------------------------------------------
(* Names: every file name built from at most MaxPieces pieces is split,    *)
(* composed with a tag, normalised a second time, and split with ".exe"    *)
(* appended.                                                               *)

NamesIdle ==
    /\ input = <<>>
    /\ npieces = 0
    /\ sp = Panic
    /\ out = Failed
    /\ out2 = Failed
    /\ spx = Panic

ArgsIdle ==
    /\ argv = <<>>
    /\ subcommand_name = ""
    /\ self_args = <<>>
    /\ cargo_args = <<>>
    /\ matches = NoMatches
    /\ target = None

RunIdle ==
    /\ stdout_read = <<>>
    /\ artifacts = <<>>
    /\ status = "running"
    /\ copies = <<>>
    /\ target_dir = {}

PropIdle ==
    /\ p_name = <<>>
    /\ p_ext = None
    /\ p_hash = None

Init ==
    /\ pc = "build"
    /\ tag = None
    /\ NamesIdle /\ ArgsIdle /\ RunIdle /\ PropIdle

AppendPiece ==
    /\ pc = "build"
    /\ npieces < MaxPieces
    /\ \E p \in Pieces : input' = input \o p
    /\ npieces' = npieces + 1
    /\ UNCHANGED <<pc, tag, sp, out, out2, spx, args_vars, run_vars, prop_vars>>

CallSplit ==
    /\ pc = "build"
    /\ sp' = split_file_name(input)
    /\ pc' = "split"
    /\ UNCHANGED <<input, npieces, tag, out, out2, spx, args_vars, run_vars, prop_vars>>

CallTarget ==
    /\ pc = "split"
    /\ \E t \in Tags :
        /\ tag' = t
        /\ out' = target_file_name(input, t)
    /\ pc' = "named"
    /\ UNCHANGED <<input, npieces, sp, out2, spx, args_vars, run_vars, prop_vars>>

Renormalize ==
    /\ pc = "named"
    /\ out2' = (IF out.panic THEN Failed ELSE target_file_name(out.val, None))
    /\ pc' = "again"
    /\ UNCHANGED <<input, npieces, tag, sp, out, spx, args_vars, run_vars, prop_vars>>

CallSplitExe ==
    /\ pc = "again"
    /\ spx' = split_file_name(input \o EXE_EXTENSION)
    /\ pc' = "done"
    /\ UNCHANGED <<input, npieces, tag, sp, out, out2, args_vars, run_vars, prop_vars>>

Next == AppendPiece \/ CallSplit \/ CallTarget \/ Renormalize \/ CallSplitExe

Spec == Init /\ [][Next]_vars

----------------------------------------------------------------------------
(* main(), lines 18-67: the command line.  Arguments are whole strings.    *)

SeqsUpTo(S, n) == UNION { [1..k -> S] : k \in 0..n }

SelfTokens == { "-n", "-t", "-h", "-x", "out" }
CargoTokens == { "test", "--release", "--" }
Subcommands == { "export", "build" }

\* The options build_opts() declares: the flags -n, -h (and -v, which only
\* changes what is printed and is not drawn), the option -t TAG.  Any other
\* token starting with '-' is an unrecognized option; "out" is a free argument.
OptionLike == { "-n", "-t", "-h", "-x" }

NoVals == [ok |-> TRUE, n |-> 0, h |-> 0, t |-> <<>>, free |-> <<>>]

\* getopts' Options::parse loop over the arguments, from position i on
RECURSIVE GetoptsFrom(_, _, _)
GetoptsFrom(a, i, acc) ==
    IF i > Len(a) THEN acc
    ELSE LET cur == a[i]
         IN  IF cur = "-n" THEN GetoptsFrom(a, i + 1, [acc EXCEPT !.n = @ + 1])
             ELSE IF cur = "-h" THEN GetoptsFrom(a, i + 1, [acc EXCEPT !.h = @ + 1])
             ELSE IF cur = "-t"
                  THEN IF i + 1 <= Len(a)
                       THEN GetoptsFrom(a, i + 2, [acc EXCEPT !.t = Append(@, a[i + 1])])
                       ELSE [acc EXCEPT !.ok = FALSE]        \* ArgumentMissing
             ELSE IF cur \in OptionLike
                  THEN [acc EXCEPT !.ok = FALSE]             \* UnrecognizedOption
             ELSE GetoptsFrom(a, i + 1, [acc EXCEPT !.free = Append(@, cur)])

\* opts.parse(self_args): Err when an option is unknown, lacks its argument
\* or is given twice
build_opts_parse(a) ==
    LET v == GetoptsFrom(a, 1, NoVals)
    IN  IF v.ok /\ v.n <= 1 /\ v.h <= 1 /\ Len(v.t) <= 1
        THEN [ok |-> TRUE, n |-> v.n = 1, h |-> v.h = 1,
              t |-> (IF v.t = <<>> THEN None ELSE Some(v.t[1])), free |-> v.free]
        ELSE NoMatches

\* args.iter().position(|i| *i == "--")
Position(a, x) ==
    LET hits == { i \in 0..(Len(a) - 1) : a[i + 1] = x }
    IN  IF hits = {} THEN None
        ELSE Some(CHOOSE i \in hits : \A j \in hits : i <= j)

\* VecDeque::pop_front leaves an empty deque empty
PopFrontRest(q) == IF q = <<>> THEN <<>> ELSE Tail(q)

\* Vec::insert(index, element); panics when index > len
InsertOk(v, index) == index <= Len(v)
Insert(v, index, e) == SubSeq(v, 1, index) \o <<e>> \o SubSeq(v, index + 1, Len(v))

\* mutant: the two options in the other order
InsertDefaultsSwappedMut(v) ==
    Insert(Insert(v, 1, "--no-run"), 1, "--message-format=json")
InsertDefaultOptions(v) ==
    Insert(Insert(v, 1, "--message-format=json"), 1, "--no-run")

Argvs ==
    { <<"cargo-export">> }
    \cup { <<"cargo-export", sub>> \o s \o d :
             sub \in Subcommands,
             s \in SeqsUpTo(SelfTokens, MaxSelfArgs),
             d \in { <<>> } \cup { <<"--">> \o c : c \in SeqsUpTo(CargoTokens, MaxCargoArgs) } }

InitArgs ==
    /\ pc = "start"
    /\ tag = None
    /\ argv \in Argvs
    /\ subcommand_name = ""
    /\ self_args = <<>>
    /\ cargo_args = <<>>
    /\ matches = NoMatches
    /\ target = None
    /\ NamesIdle /\ RunIdle /\ PropIdle

\* lines 20-33
SplitArgs ==
    /\ pc = "start"
    /\ LET popped == PopFrontRest(argv)
           args   == PopFrontRest(popped)
           pos    == Position(args, "--")
       IN  /\ subcommand_name' = (IF popped = <<>> THEN "" ELSE Head(popped))
           /\ self_args' = (IF pos.some THEN SubSeq(args, 1, pos.val) ELSE args)
           /\ cargo_args' = (IF pos.some THEN SubSeq(args, pos.val + 2, Len(args)) ELSE <<>>)
    /\ pc' = "parse"
    /\ UNCHANGED <<tag, argv, matches, target, names_vars, run_vars, prop_vars>>

\* lines 35-58: every print_usage call ends the process with exit(1)
UsageError(m) ==
    \/ ~m.ok
    \/ m.h
    \/ subcommand_name # "export"
    \/ cargo_args = <<>>
    \/ m.free = <<>>

ParseOpts ==
    /\ pc = "parse"
    /\ LET m == build_opts_parse(self_args)
       IN  /\ matches' = m
           /\ IF UsageError(m)
              THEN pc' = "usage" /\ target' = target
              ELSE pc' = "defaults" /\ target' = Some(m.free[1])
    /\ UNCHANGED <<tag, argv, subcommand_name, self_args, cargo_args,
                   names_vars, run_vars, prop_vars>>

\* lines 60-67
InsertDefaults ==
    /\ pc = "defaults"
    /\ IF matches.n
       THEN pc' = "spawn" /\ cargo_args' = cargo_args /\ tag' = matches.t
       ELSE IF InsertOk(cargo_args, 1)
            THEN /\ pc' = "spawn"
                 /\ cargo_args' = InsertDefaultOptions(cargo_args)
                 /\ tag' = matches.t
            ELSE pc' = "panicked" /\ cargo_args' = cargo_args /\ tag' = tag
    /\ UNCHANGED <<argv, subcommand_name, self_args, matches, target,
                   names_vars, run_vars, prop_vars>>

NextArgs == SplitArgs \/ ParseOpts \/ InsertDefaults

SpecArgs == InitArgs /\ [][NextArgs]_vars

----------------------------------------------------------------------------
(* main(), lines 66-117: the export run.  A path is its directory and its  *)
(* final component (Path::file_name, None for a path ending in "..").  A   *)
(* stdout line is: whether it is JSON, the shape of the JSON value, and    *)
(* the values the derived Deserialize of CompilerArtifact reads for the    *)
(* fields reason and executable (None when absent or not a string): the    *)
(* members "reason" and "executable" of an object, the first and second    *)
(* element of an array.  Arrays drawn here have exactly two elements.      *)

Path(dir, file) == [dir |-> dir, file |-> file]

Executables ==
    { Path("target/debug/deps", Some(<<97>> \o HYPHEN \o HashLower)),
      Path("target/release/deps", Some(<<97>> \o HYPHEN \o HashUpper)),
      Path("target/debug", Some(<<97>>)),
      Path("target/debug/deps", Some(<<97>> \o HYPHEN \o HashLower \o EXE_EXTENSION)),
      Path("..", None) }

Line(shape, reason, executable) ==
    [json |-> shape # "invalid", shape |-> shape,
     reason |-> reason, executable |-> executable]

Lines ==
    { Line("invalid", None, None) }
    \cup { Line("object", Some("compiler-artifact"), Some(e)) : e \in Executables }
    \cup { Line("object", Some("compiler-artifact"), None),
           Line("object", Some("build-script-executed"),
                Some(Path("target/debug/build", Some(<<97>> \o HYPHEN \o HashLower)))),
           Line("object", Some("build-finished"), None),
           \* ["compiler-artifact", "target/debug/deps/a-ebb8dd5b587f73a1"]
           Line("array", Some("compiler-artifact"),
                Some(Path("target/debug/deps", Some(<<97>> \o HYPHEN \o HashLower)))),
           \* a JSON scalar
           Line("scalar", None, None) }

\* serde_json::from_value::<CompilerArtifact>(value).ok()
\*     .filter(|m| m.reason == "compiler-artifact")
\* the derived Deserialize takes a struct from a map and from a sequence
IsArtifact(l) ==
    /\ l.shape \in { "object", "array" }
    /\ l.reason.some
    /\ l.executable.some
    /\ l.reason.val = "compiler-artifact"

\* The bytes held by `from` before a copy: the artifact's own, unless the
\* artifact lies in the destination directory and the run has written a file
\* of its name there
SourceContent(dir, from) ==
    IF from.dir = target.val /\ \E f \in dir : f.name = from.file.val
    THEN LET f == CHOOSE f \in dir : f.name = from.file.val
         IN  [from |-> f.from, whole |-> f.whole]
    ELSE [from |-> from, whole |-> TRUE]

\* target_dir.join(&file_name) is the path of the artifact itself
SameFile(from, name) == from.dir = target.val /\ from.file.val = name

\* the directory with the file `name` written
WriteInto(dir, name, content) ==
    { f \in dir : f.name # name }
    \cup { [name |-> name, from |-> content.from, whole |-> content.whole] }

\* The bytes fs::copy(from, to) transfers when it returns Ok: those of the
\* source as it is once the destination was opened.  When the destination is
\* the source itself, opening it truncated the source: nothing is read, Ok(0).
CopiedContent(dir, from, name) ==
    IF SameFile(from, name)
    THEN [from |-> from, whole |-> FALSE]
    ELSE SourceContent(dir, from)

\* fs::copy(from, to) returning Ok: the destination is created or truncated,
\* then given the bytes transferred
CopyInto(dir, from, name) ==
    WriteInto(dir, name, CopiedContent(dir, from, name))

\* fs::copy(from, to) failing after it opened (created or truncated) the
\* destination: the file is there without the whole content of the source
TruncateInto(dir, from, name) ==
    WriteInto(dir, name, [from |-> SourceContent(dir, from).from, whole |-> FALSE])

TargetDirs == { "out", "target/debug", "target/release/deps" }
RunTags == Tags \cup { Some(HashUpper) }

InitRun ==
    /\ pc = "spawn"
    /\ tag \in RunTags
    /\ target \in { Some(d) : d \in TargetDirs }
    /\ argv = <<>>
    /\ subcommand_name = ""
    /\ self_args = <<>>
    /\ cargo_args = <<>>
    /\ matches = NoMatches
    /\ NamesIdle /\ RunIdle /\ PropIdle

\* lines 74-81
SpawnCargo ==
    /\ pc = "spawn"
    /\ \E spawned \in BOOLEAN :
        pc' = (IF spawned THEN "reading" ELSE "panicked")
    /\ UNCHANGED <<tag, names_vars, args_vars, run_vars, prop_vars>>

\* lines 82-96, one iteration of the loop over stdout.lines()
ReadLine ==
    /\ pc = "reading"
    /\ Len(stdout_read) < MaxLines
    /\ \E l \in Lines :
        /\ stdout_read' = Append(stdout_read, l)
        /\ IF ~l.json
           THEN pc' = "panicked" /\ artifacts' = artifacts
           ELSE /\ pc' = pc
                /\ artifacts' = (IF IsArtifact(l) THEN Append(artifacts, l) ELSE artifacts)
    /\ UNCHANGED <<tag, status, copies, target_dir, names_vars, args_vars, prop_vars>>

\* mutant: the exit status is recorded but not acted on
WaitCargoCopiesAnywayMut ==
    /\ pc = "reading"
    /\ \E waited \in { "success", "failure", "error" } :
        IF waited = "error"
        THEN pc' = "panicked" /\ status' = status
        ELSE status' = waited /\ pc' = "copying"
    /\ UNCHANGED <<tag, stdout_read, artifacts, copies, target_dir,
                   names_vars, args_vars, prop_vars>>

\* lines 97-101, at the end of stdout: command.wait() gives an exit status,
\* or an Err on which .expect("Failed executing cargo") panics
WaitCargo ==
    /\ pc = "reading"
    /\ \E waited \in { "success", "failure", "error" } :
        IF waited = "error"
        THEN pc' = "panicked" /\ status' = status
        ELSE /\ status' = waited
             /\ pc' = (IF waited = "success" THEN "copying" ELSE "exit1")
    /\ UNCHANGED <<tag, stdout_read, artifacts, copies, target_dir,
                   names_vars, args_vars, prop_vars>>

\* lines 103-117, one iteration of the loop over artifacts.  fs::copy either
\* returns Ok, or fails before it opens the destination (source missing,
\* destination a directory), or fails after it created or truncated it;
\* .expect("Unable to copy file") panics on both failures.  Nothing keeps
\* the destination from being the artifact itself.
CopyArtifact ==
    /\ pc = "copying"
    /\ artifacts # <<>>
    /\ LET from == Head(artifacts).executable.val
           to   == IF from.file.some THEN target_file_name(from.file.val, tag) ELSE Failed
       IN  IF ~from.file.some \/ to.panic
           THEN pc' = "panicked" /\ UNCHANGED <<artifacts, copies, target_dir>>
           ELSE \E result \in { "ok", "failed", "truncated" } :
                  IF result = "ok"
                  THEN /\ pc' = pc
                       /\ artifacts' = Tail(artifacts)
                       /\ copies' = Append(copies,
                                           [from |-> from, to |-> to.val,
                                            read |-> CopiedContent(target_dir, from, to.val)])
                       /\ target_dir' = CopyInto(target_dir, from, to.val)
                  ELSE /\ pc' = "panicked"
                       /\ target_dir' = (IF result = "truncated"
                                         THEN TruncateInto(target_dir, from, to.val)
                                         ELSE target_dir)
                       /\ UNCHANGED <<artifacts, copies>>
    /\ UNCHANGED <<tag, stdout_read, status, names_vars, args_vars, prop_vars>>

\* line 118
Finish ==
    /\ pc = "copying"
    /\ artifacts = <<>>
    /\ pc' = "done"
    /\ UNCHANGED <<tag, names_vars, args_vars, run_vars, prop_vars>>

NextRun == SpawnCargo \/ ReadLine \/ WaitCargo \/ CopyArtifact \/ Finish

SpecRun == InitRun /\ [][NextRun]_vars

----------------------------------------------------------------------------
(* tests/proptest.rs, doesnt_crash: generated name, tag, extension, hash   *)

\* one lowercase hexadecimal digit
HexDigit(d) == IF d < 10 THEN 48 + d ELSE 87 + d

\* the hexadecimal digits of n, most significant first, "" for 0
RECURSIVE HexDigits(_)
HexDigits(n) == IF n = 0 THEN <<>> ELSE Append(HexDigits(n \div 16), HexDigit(n % 16))

\* format!("{:016x}", n)
Format016x(n) ==
    LET d == HexDigits(n)
    IN  [k \in 1..(RUSTC_HASH_LENGTH - Len(d)) |-> 48] \o d

PropNames == { <<97>>, <<97, 98>>, <<122, 122, 122>> }          \* "a", "ab", "zzz"
PropExts ==
    { None, Some(<<101, 120, 101>>), Some(<<100, 121, 108, 105, 98>>),
      Some(<<115, 111>>), Some(<<100, 108, 108>>) }             \* exe, dylib, so, dll
PropHashes == { None, Some(0), Some(175), Some(2147483647) }
PropTags == Tags \cup { Some(Format016x(175)) }

InitProp ==
    /\ pc = "generated"
    /\ tag \in PropTags
    /\ p_name \in PropNames
    /\ p_ext \in PropExts
    /\ p_hash \in PropHashes
    /\ NamesIdle /\ ArgsIdle /\ RunIdle

\* proptest.rs lines 27-35
BuildInput ==
    /\ pc = "generated"
    /\ input' = p_name
                \o (IF p_hash.some THEN HYPHEN \o Format016x(p_hash.val) ELSE <<>>)
                \o (IF p_ext.some THEN DOT \o p_ext.val ELSE <<>>)
    /\ pc' = "built"
    /\ UNCHANGED <<tag, npieces, sp, out, out2, spx, args_vars, run_vars, prop_vars>>

\* proptest.rs line 36
CallTargetProp ==
    /\ pc = "built"
    /\ out' = target_file_name(input, tag)
    /\ pc' = "checked"
    /\ UNCHANGED <<tag, input, npieces, sp, out2, spx, args_vars, run_vars, prop_vars>>

NextProp == BuildInput \/ CallTargetProp

SpecProp == InitProp /\ [][NextProp]_vars

----------------------------------------------------------------------------
(* Properties of the file-name functions, stated on the bytes of the name  *)
(* without the operators of the model above.                               *)

ExeSuffix == <<46, 101, 120, 101>>                     \* ".exe"
TagText == <<116, 97, 103>>                            \* "tag"
HexBytes == (48..57) \cup (97..102) \cup (65..70)      \* 0-9, a-f, A-F

Split_done == pc \in { "split", "named", "again", "done" }
Target_done == pc \in { "named", "again", "done" }
Again_done == pc \in { "again", "done" }

HasSuffix(s, suffix) ==
    Len(s) >= Len(suffix)
    /\ \A k \in 1..Len(suffix) : s[Len(s) - Len(suffix) + k] = suffix[k]

\* the name without a ".exe" suffix
Remainder(s) == IF HasSuffix(s, ExeSuffix) THEN SubSeq(s, 1, Len(s) - 4) ELSE s

\* position (1-based) of the last '-', 0 when there is none
LastHyphen(r) ==
    IF \E k \in 1..Len(r) : r[k] = 45
    THEN CHOOSE k \in 1..Len(r) : r[k] = 45 /\ \A m \in (k + 1)..Len(r) : r[m] # 45
    ELSE 0

\* the text strictly after the last '-' (the whole text when there is none)
LastSegment(r) == SubSeq(r, LastHyphen(r) + 1, Len(r))

IsHex16(c) == Len(c) = 16 /\ \A k \in 1..16 : c[k] \in HexBytes

\* a '-' exists, its last occurrence is at an index > 0, and what follows
\* is 16 hex digits
HashExpected(r) == LastHyphen(r) > 1 /\ IsHex16(LastSegment(r))

\* the name ends with '-' and 16 hex digits
HasTrailingHash(s) == LastHyphen(s) >= 1 /\ IsHex16(LastSegment(s))

OptPart(sep, o) == IF o.some THEN sep \o o.val ELSE <<>>

\* C1: target_file_name(raw, tag) is stem, then "-" and the tag verbatim when
\* a tag is present, then "." and the extension when one was recognized,
\* where (stem, hash, extension) = split_file_name(raw); the hash is not
\* appended.  ("a-ebb8dd5b587f73a1.exe", "tag") gives "a-tag.exe",
\* ("", "tag") gives "-tag", (".exe", "tag") gives "-tag.exe".
C1_Composition ==
    Target_done =>
        /\ ~sp.panic /\ ~out.panic
        /\ out.val = sp.stem \o OptPart(<<45>>, tag) \o OptPart(<<46>>, sp.ext)
        /\ (tag = Some(TagText) /\ input = <<97, 45>> \o HashLower \o ExeSuffix
               => out.val = <<97, 45>> \o TagText \o ExeSuffix)
        /\ (tag = Some(TagText) /\ input = <<>> => out.val = <<45>> \o TagText)
        /\ (tag = Some(TagText) /\ input = ExeSuffix
               => out.val = <<45>> \o TagText \o ExeSuffix)

C1_Witness ==
    /\ pc = "named"
    /\ tag = Some(TagText)
    /\ input = <<97, 45>> \o HashLower \o ExeSuffix
    /\ sp.hash = Some(HashLower)
    /\ out.val = <<97, 45>> \o TagText \o ExeSuffix

\* C2: split_file_name reports a hash, and cuts the stem just before the last
\* '-', exactly when the remainder after extension stripping has a last '-'
\* at an index > 0 followed by exactly 16 bytes that are all ASCII hex
\* digits; otherwise hash is None and the stem is the whole remainder.
C2_HashIff ==
    Split_done =>
        LET r == Remainder(input)
        IN  /\ ~sp.panic
            /\ sp.hash.some <=> HashExpected(r)
            /\ HashExpected(r) =>
                 /\ sp.stem = SubSeq(r, 1, LastHyphen(r) - 1)
                 /\ sp.hash = Some(LastSegment(r))
            /\ ~HashExpected(r) => sp.stem = r /\ sp.hash = None

\* a 16-byte candidate with a two-byte character is rejected, stem unchanged
C2_Witness ==
    /\ pc = "split"
    /\ input = <<97, 45>> \o MultiByte16
    /\ sp.hash = None
    /\ sp.stem = input

\* C4: ".exe" is stripped before hash detection and is the only recognized
\* suffix: for rest not ending with ".exe", split(rest + ".exe") is
\* (split(rest).stem, split(rest).hash, "exe"); for an input not ending with
\* ".exe" the extension is None and the hash is looked for in the full string.
C4_ExeFirst ==
    /\ (pc = "done" /\ ~HasSuffix(input, ExeSuffix))
          => spx = [panic |-> FALSE, stem |-> sp.stem, hash |-> sp.hash,
                    ext |-> Some(<<101, 120, 101>>)]
    /\ (Split_done /\ ~HasSuffix(input, ExeSuffix))
          => /\ sp.ext = None
             /\ sp.hash.some <=> HashExpected(input)
             /\ sp.stem \o OptPart(<<45>>, sp.hash) = input

\* a valid hash immediately followed by ".exe" is recognized
C4_Witness ==
    /\ pc = "done"
    /\ input = <<97, 45>> \o HashUpper
    /\ spx.hash = Some(HashUpper)
    /\ spx.stem = <<97>>
    /\ spx.ext = Some(<<101, 120, 101>>)

\* C5: for raw with no 16-hex-digit trailing segment and no ".exe" suffix,
\* target_file_name(raw, None) = raw.
C5_RoundTrip ==
    (Target_done /\ tag = None
        /\ ~HasTrailingHash(input) /\ ~HasSuffix(input, ExeSuffix))
    => out = [panic |-> FALSE, val |-> input]

\* a rejected hash-like candidate is preserved
C5_Witness ==
    /\ pc = "named"
    /\ tag = None
    /\ input = <<97, 45>> \o NotHex16
    /\ out.val = input

\* C6: split_file_name and target_file_name return for every input: every
\* byte index used to slice the name (idx, idx + 1, the start of the ".exe"
\* suffix) is within bounds and on a character boundary.
C6_NoPanic ==
    /\ Split_done => ~sp.panic
    /\ Target_done => ~out.panic
    /\ Again_done => ~out2.panic
    /\ pc = "done" => ~spx.panic
    /\ HasSuffix(input, ExeSuffix) => IsCharBoundary(input, Len(input) - 4)
    /\ LastHyphen(Remainder(input)) >= 1 =>
         /\ IsCharBoundary(Remainder(input), LastHyphen(Remainder(input)) - 1)
         /\ IsCharBoundary(Remainder(input), LastHyphen(Remainder(input)))

\* two-byte characters in the stem and in the candidate
C6_Witness ==
    /\ pc = "done"
    /\ input = <<195, 169, 195, 169, 45>> \o MultiByte16
    /\ ~sp.panic /\ ~out.panic
    /\ out.val = input \o OptPart(<<45>>, tag)

\* s + "-" + h1 + "-" + h2 with s non-empty and h1, h2 16 hex digits each
DoubleHash(s) ==
    /\ Len(s) >= 35
    /\ s[Len(s) - 16] = 45
    /\ IsHex16(SubSeq(s, Len(s) - 15, Len(s)))
    /\ s[Len(s) - 33] = 45
    /\ IsHex16(SubSeq(s, Len(s) - 32, Len(s) - 17))

C10_OneHash ==
    /\ (Target_done /\ tag = None /\ DoubleHash(input))
          => out.val = SubSeq(input, 1, Len(input) - 17)
    /\ (Again_done /\ tag = None /\ DoubleHash(input))
          => out2.val = SubSeq(input, 1, Len(input) - 34)

\* C10 as claimed: only the segment after the last '-' is examined, so
\* s-h1-h2 gives s-h1 and a second application gives s; and normalisation
\* without a tag is idempotent on every input whose output's last
\* '-'-delimited segment is not a valid hash.
C10_Original ==
    /\ C10_OneHash
    /\ (Again_done /\ tag = None /\ ~IsHex16(LastSegment(out.val)))
          => out2 = out

\* C10 amended: ... idempotent on every input whose output, once a ".exe"
\* suffix is removed from it, has a last '-'-delimited segment that is not a
\* valid hash.
C10_Amended ==
    /\ C10_OneHash
    /\ (Again_done /\ tag = None /\ ~IsHex16(LastSegment(Remainder(out.val))))
          => out2 = out

C10_Witness ==
    /\ pc = "again"
    /\ tag = None
    /\ input = <<195, 169, 45>> \o HashLower \o <<45>> \o HashUpper
    /\ out.val = <<195, 169, 45>> \o HashLower
    /\ out2.val = <<195, 169>>

----------------------------------------------------------------------------
(* Properties of the proptest harness, the command line and the export run *)

StartsWith(s, prefix) ==
    Len(s) >= Len(prefix) /\ SubSeq(s, 1, Len(prefix)) = prefix

Contains(s, sub) ==
    \E k \in 0..(Len(s) - Len(sub)) : SubSeq(s, k + 1, k + Len(sub)) = sub

\* C3: with input = name + ("-" + hash) + ("." + ext), target_file_name(input,
\* tag) starts with name, contains the tag when one is given, ends with
\* "." + ext when an extension was given, never contains the 16 hex digits
\* of a supplied hash, and is at least len(name) + len(tag) + len(ext) long.
C3_Proptest ==
    pc = "checked" =>
        /\ ~out.panic
        /\ StartsWith(out.val, p_name)
        /\ tag.some => Contains(out.val, tag.val)
        /\ p_ext.some => HasSuffix(out.val, <<46>> \o p_ext.val)
        /\ p_hash.some => ~Contains(out.val, Format016x(p_hash.val))
        /\ Len(out.val) >= Len(p_name) + Len(tag.val) + Len(p_ext.val)

\* the arguments given after the first "--" of the command line
CargoGiven ==
    LET rest == SubSeq(argv, 3, Len(argv))
    IN  IF \E k \in 1..Len(rest) : rest[k] = "--"
        THEN LET k == CHOOSE k \in 1..Len(rest) :
                        rest[k] = "--" /\ \A m \in 1..(k - 1) : rest[m] # "--"
             IN  SubSeq(rest, k + 1, Len(rest))
        ELSE <<>>

\* C8: without the no-default-options flag the list handed to cargo is
\* [c0, "--no-run", "--message-format=json", c1, ..., cn], also for [c0]
\* alone; with the flag it is the given list unchanged; an empty list of
\* cargo arguments ends in the usage error and never reaches the insertion.
C8_CargoArgs ==
    /\ pc # "panicked"
    /\ pc \in { "defaults", "spawn" } => CargoGiven # <<>>
    /\ (pc \in { "usage", "defaults", "spawn" } /\ CargoGiven = <<>>) => pc = "usage"
    /\ pc = "spawn" =>
         cargo_args = IF matches.n THEN CargoGiven
                      ELSE <<CargoGiven[1], "--no-run", "--message-format=json">>
                           \o SubSeq(CargoGiven, 2, Len(CargoGiven))

\* the subcommand alone, and no flag
C8_Witness ==
    /\ pc = "spawn"
    /\ ~matches.n
    /\ CargoGiven = <<"test">>
    /\ cargo_args = <<"test", "--no-run", "--message-format=json">>

\* the line decodes to the record CompilerArtifact { reason:
\* "compiler-artifact", executable: e }, from an object with these members
\* or from the array [reason, executable]
ArtifactRecord(l, e) ==
    /\ l.shape \in { "object", "array" }
    /\ l.reason = Some("compiler-artifact")
    /\ l.executable = Some(e)

\* C7: a file is copied only after stdout was read to its end with every
\* line JSON and cargo then exited successfully; a non-zero exit status ends
\* in exit(1) with nothing copied; a line that is not JSON aborts with
\* nothing copied; only decoded records whose reason is "compiler-artifact"
\* and whose executable is a string are copied.
C7_CopyAfterWait ==
    /\ (copies # <<>> \/ target_dir # {}) =>
         /\ status = "success"
         /\ pc \in { "copying", "done", "panicked" }
         /\ \A k \in 1..Len(stdout_read) : stdout_read[k].json
    /\ status = "failure" => pc = "exit1" /\ copies = <<>> /\ target_dir = {}
    /\ pc = "exit1" => status = "failure"
    /\ (\E k \in 1..Len(stdout_read) : ~stdout_read[k].json)
         => pc = "panicked" /\ copies = <<>> /\ target_dir = {}
    /\ \A c \in 1..Len(copies) :
         \E k \in 1..Len(stdout_read) : ArtifactRecord(stdout_read[k], copies[c].from)
    /\ \A f \in target_dir :
         \E k \in 1..Len(stdout_read) : ArtifactRecord(stdout_read[k], f.from)
    /\ Len(copies) <= Cardinality({ k \in 1..Len(stdout_read) :
                                      /\ stdout_read[k].executable.some
                                      /\ ArtifactRecord(stdout_read[k],
                                                        stdout_read[k].executable.val) })

\* an artifact copied after a record of another reason and one without executable
C7_Witness ==
    /\ pc = "done"
    /\ status = "success"
    /\ Len(stdout_read) = 3
    /\ stdout_read[1].reason = Some("build-script-executed")
    /\ stdout_read[2].executable = None
    /\ stdout_read[3].shape = "object"
    /\ Len(copies) = 1
    /\ copies[1].from = stdout_read[3].executable.val

\* two file names that differ only in their recognized hash
DifferOnlyInHash(a, b) ==
    /\ a # b
    /\ HasSuffix(a, ExeSuffix) <=> HasSuffix(b, ExeSuffix)
    /\ HashExpected(Remainder(a)) /\ HashExpected(Remainder(b))
    /\ SubSeq(Remainder(a), 1, LastHyphen(Remainder(a)) - 1)
         = SubSeq(Remainder(b), 1, LastHyphen(Remainder(b)) - 1)

\* the last of the copies made to the destination of copy j
LastCopyTo(j) == \A k \in (j + 1)..Len(copies) : copies[k].to # copies[j].to

\* the destination of copy j holds all the bytes of the artifact of copy j
HoldsArtifact(j) ==
    \E f \in target_dir :
       f.name = copies[j].to /\ f.from = copies[j].from /\ f.whole

\* C9: two artifacts of one run whose file names differ only in their
\* recognized hash get the same destination path; copies are made in the
\* order reported and the later copy overwrites the earlier one, so after the
\* run the destination holds the content of the last such artifact, and the
\* number of exported files is then smaller than the number of artifacts.
C9_LastCopyWins ==
    \A i, j \in 1..Len(copies) :
       (i < j /\ DifferOnlyInHash(copies[i].from.file.val, copies[j].from.file.val))
       => /\ copies[i].to = copies[j].to
          /\ (pc = "done" /\ LastCopyTo(j)) => HoldsArtifact(j)
          /\ pc = "done" => Cardinality(target_dir) < Len(copies)

\* the same, for copies whose destination is not the artifact itself
LastCopyWinsUnlessSameFile ==
    \A i, j \in 1..Len(copies) :
       (i < j /\ DifferOnlyInHash(copies[i].from.file.val, copies[j].from.file.val)
          /\ ~SameFile(copies[j].from, copies[j].to))
       => /\ copies[i].to = copies[j].to
          /\ (pc = "done" /\ LastCopyTo(j)) => HoldsArtifact(j)
          /\ pc = "done" => Cardinality(target_dir) < Len(copies)

====
